---- MODULE Spec2Model ----
(***************************************************************************)
(* Model of god-watcher (src/src/main.rs): the startup subscription pass,  *)
(* the 30-second resubscribe task, the ingestion loop and the 1-second     *)
(* flush task that posts the buffered fills to the webhook.                *)
(*                                                                         *)
(* The EventSource (hyperliquid_rust_sdk InfoClient) and the webhook are   *)
(* external: every subscribe / unsubscribe / POST may succeed or fail.     *)
(* Variables marked "history" are not program state; they record what the  *)
(* EventSource and the webhook have seen so that properties can be stated. *)
(***************************************************************************)
EXTENDS Integers, Sequences, FiniteSets, TLC

\* ------------------------------------------------------------------ bounds
MaxAccounts == 2

\* fills the EventSource reports in one run, and channel messages it sends
MaxFills == 2

MaxMessages == 2

Accounts == 1..MaxAccounts

\* Subscription ids are u32 values chosen by the EventSource.  The program only
\* compares them for equality, so the model names them from a finite pool and
\* hands out a name again only once nothing refers to it any more.
Handles == 1..(2 * MaxAccounts)

\* The child addresses as strings, written <<prefix, digits>>: the hex form of
\* an account, or a string that H160::from_str rejects.
Malformed == <<"zz", 0>>

Hex(a) == <<"0x", a>>

AddressStrings == {Hex(a) : a \in Accounts} \cup {Malformed}

\* H160::from_str
FromStr(s) ==
    IF s \in {Hex(a) : a \in Accounts}
    THEN [ok |-> TRUE, user |-> s[2]]
    ELSE [ok |-> FALSE]

\* TradeInfo as far as the program reads it (side, coin, sz); tid is the
\* venue's trade id, kept to tell one fill from another.
Sides == {"A", "B", "X"}

\* the coin and size of a fill: the two of the specification's flush example
CoinSizes == {<<"BTC", "1">>, <<"ETH", "2">>}

TradeInfo(tid) ==
    {[side |-> side, coin |-> cs[1], sz |-> cs[2], tid |-> tid] :
        side \in Sides, cs \in CoinSizes}

\* ------------------------------------------------------------------ helpers
Range(s) == {s[n] : n \in 1..Len(s)}

IsInjective(s) == \A m, n \in 1..Len(s) : m # n => s[m] # s[n]

\* Account identifiers are opaque to the program: the accounts of a resolved
\* list are numbered in the order in which the list names them.
NumberedInOrder(s) ==
    \A m \in 1..Len(s) :
       FromStr(s[m]).ok =>
          s[m] = Hex(Cardinality({n \in 1..m : FromStr(s[n]).ok}))

SeqsUpTo(S, n) == UNION {[1..m -> S] : m \in 0..n}

\* Vec::dedup: removes consecutive repeated elements
RECURSIVE dedup(_)
dedup(s) ==
    IF Len(s) <= 1 THEN s
    ELSE IF s[1] = s[2] THEN dedup(Tail(s))
         ELSE <<s[1]>> \o dedup(Tail(s))

Min(S) == CHOOSE x \in S : \A y \in S : x <= y

\* ------------------------------------------------------------------ state
VARIABLES
    addresses,                \* info.relationship.data.child_addresses
    main_pc,                  \* position of main: "subscribe", "spawned", "recv", "exited"
    address_i,                \* index of the next address of the startup loop
    subscribed_users,         \* Vec<H160>
    subscription_ids,         \* Vec<u32>
    resub_pc,                 \* resubscribe task: "none", "sleep", "unsubscribe", "subscribe", "commit", "panicked"
    i,                        \* index of the enumerate() loop (1-based)
    failed_subscription_ids,  \* Vec<u32>, local to one cycle
    new_subscription_ids,     \* Vec<u32>, local to one cycle
    live,                     \* history: handles subscribed and not yet successfully unsubscribed
    issued_for,               \* history: the account each handle was issued for
    init_failed,              \* history: accounts whose startup subscribe failed
    calls,                    \* history: EventSource calls of the startup pass / the current cycle
    receiver,                 \* messages in the unbounded channel, oldest first
    user_fills,               \* user.data.fills of the message main holds while it waits for the lock
    trades,                   \* Arc<Mutex<Vec<TradeInfo>>>: the buffer
    trades_lock,              \* holder of the mutex across an await: "free" or "flush"
    flush_pc,                 \* flush task: "none", "sleep", "send"
    message,                  \* the message of the POST in flight
    sent_fills,               \* history: number of fills the EventSource has reported
    sent_messages,            \* history: number of channel messages the EventSource has sent
    posts,                    \* history: the webhook POSTs made, [content, fills, result, blocked]
    drained,                  \* history: the non-empty buffers found at flush ticks
    last_tick,                \* history: what the latest flush tick found: "none", "empty", "fills"
    discarded                 \* history: number of messages the ingestion loop took and ignored

subVars == <<addresses, main_pc, address_i, subscribed_users, subscription_ids,
             resub_pc, i, failed_subscription_ids, new_subscription_ids,
             live, issued_for, init_failed, calls>>

pipeVars == <<receiver, user_fills, trades, trades_lock, flush_pc, message,
              sent_fills, sent_messages, posts, drained, last_tick, discarded>>

vars == <<subVars, pipeVars>>

\* ------------------------------------------------------------------ EventSource
Referenced ==
    live \cup Range(subscription_ids) \cup Range(new_subscription_ids)
         \cup Range(failed_subscription_ids)

\* the id a successful subscribe returns
NextHandle == Min(Handles \ Referenced)

LiveOf(user) == {h \in live : issued_for[h] = user}

SubscribeCall(user, ok, h) ==
    [op |-> "subscribe", user |-> user, id |-> h, ok |-> ok, held |-> LiveOf(user)]

UnsubscribeCall(h, ok) ==
    [op |-> "unsubscribe", user |-> issued_for[h], id |-> h, ok |-> ok,
     held |-> {h} \cap live]

\* ------------------------------------------------------------------ startup
Init ==
    /\ addresses \in {s \in SeqsUpTo(AddressStrings, MaxAccounts) :
                         IsInjective(s) /\ NumberedInOrder(s)}
    /\ main_pc = "subscribe"
    /\ address_i = 1
    /\ subscribed_users = <<>>
    /\ subscription_ids = <<>>
    /\ resub_pc = "none"
    /\ i = 1
    /\ failed_subscription_ids = <<>>
    /\ new_subscription_ids = <<>>
    /\ live = {}
    /\ issued_for = [h \in Handles |-> 0]
    /\ init_failed = {}
    /\ calls = <<>>
    /\ receiver = <<>>
    /\ user_fills = <<>>
    /\ trades = <<>>
    /\ trades_lock = "free"
    /\ flush_pc = "none"
    /\ message = ""
    /\ sent_fills = 0
    /\ sent_messages = 0
    /\ posts = <<>>
    /\ drained = <<>>
    /\ last_tick = "none"
    /\ discarded = 0

InStartupLoop == main_pc = "subscribe" /\ address_i <= Len(addresses)

\* H160::from_str(address)? returns the error from main
InitParseErr ==
    /\ InStartupLoop
    /\ ~FromStr(addresses[address_i]).ok
    /\ main_pc' = "exited"
    /\ UNCHANGED <<addresses, address_i, subscribed_users, subscription_ids, resub_pc,
                   i, failed_subscription_ids, new_subscription_ids, live, issued_for,
                   init_failed, calls,
                   pipeVars>>

\* Ok(u32) => push user and id
InitSubscribeOk ==
    /\ InStartupLoop
    /\ FromStr(addresses[address_i]).ok
    /\ LET user == FromStr(addresses[address_i]).user
           h == NextHandle
       IN /\ subscribed_users' = Append(subscribed_users, user)
          /\ subscription_ids' = Append(subscription_ids, h)
          /\ live' = live \cup {h}
          /\ issued_for' = [issued_for EXCEPT ![h] = user]
          /\ calls' = Append(calls, SubscribeCall(user, TRUE, h))
    /\ address_i' = address_i + 1
    /\ UNCHANGED <<addresses, main_pc, resub_pc, i, failed_subscription_ids,
                   new_subscription_ids, init_failed,
                   pipeVars>>

\* a changed InitSubscribeErr: the user is recorded although the subscribe failed
InitSubscribeErrKeepsUser ==
    /\ InStartupLoop
    /\ FromStr(addresses[address_i]).ok
    /\ LET user == FromStr(addresses[address_i]).user
       IN /\ init_failed' = init_failed \cup {user}
          /\ subscribed_users' = Append(subscribed_users, user)
          /\ calls' = Append(calls, SubscribeCall(user, FALSE, 0))
    /\ address_i' = address_i + 1
    /\ UNCHANGED <<addresses, main_pc, subscription_ids, resub_pc, i,
                   failed_subscription_ids, new_subscription_ids, live, issued_for,
                   pipeVars>>

\* Err(e) => warn
InitSubscribeErr ==
    /\ InStartupLoop
    /\ FromStr(addresses[address_i]).ok
    /\ LET user == FromStr(addresses[address_i]).user
       IN /\ init_failed' = init_failed \cup {user}
          /\ calls' = Append(calls, SubscribeCall(user, FALSE, 0))
    /\ address_i' = address_i + 1
    /\ UNCHANGED <<addresses, main_pc, subscribed_users, subscription_ids, resub_pc, i,
                   failed_subscription_ids, new_subscription_ids, live, issued_for,
                   pipeVars>>

\* Lines 83-171 run without an await: both tasks are spawned (each starts with
\* its sleep), DISCORD_WEBHOOK_URL is read, main enters its receive loop.
SpawnTasks ==
    /\ main_pc = "subscribe"
    /\ address_i > Len(addresses)
    /\ main_pc' = "recv"
    /\ resub_pc' = "sleep"
    /\ flush_pc' = "sleep"
    /\ UNCHANGED <<addresses, address_i, subscribed_users, subscription_ids, i,
                   failed_subscription_ids, new_subscription_ids, live, issued_for,
                   init_failed, calls>>
    /\ UNCHANGED <<receiver, user_fills, trades, trades_lock, message, sent_fills,
                   sent_messages, posts, drained, last_tick, discarded>>

\* env::var("DISCORD_WEBHOOK_URL")? returns the error from main: the process ends
WebhookUrlMissing ==
    /\ main_pc = "subscribe"
    /\ address_i > Len(addresses)
    /\ main_pc' = "exited"
    /\ UNCHANGED <<addresses, address_i, subscribed_users, subscription_ids, resub_pc,
                   i, failed_subscription_ids, new_subscription_ids, live, issued_for,
                   init_failed, calls,
                   pipeVars>>

Startup ==
    InitParseErr \/ InitSubscribeOk \/ InitSubscribeErr \/ SpawnTasks \/ WebhookUrlMissing

\* ------------------------------------------------------------------ resubscribe task
Alive == main_pc # "exited"

\* the position after the body of the for loop ran for index n
AfterSlot(n) == IF n + 1 <= Len(subscription_ids) THEN "unsubscribe" ELSE "commit"

\* sleep(30 s) elapsed: a cycle starts with empty local vectors
Resubscribing ==
    /\ Alive
    /\ resub_pc = "sleep"
    /\ failed_subscription_ids' = <<>>
    /\ new_subscription_ids' = <<>>
    /\ i' = 1
    /\ resub_pc' = AfterSlot(0)
    /\ calls' = <<>>
    /\ UNCHANGED <<addresses, main_pc, address_i, subscribed_users, subscription_ids,
                   live, issued_for, init_failed,
                   pipeVars>>

\* info_client.unsubscribe(*subscription_id) returned Ok(()):
\* subscribed_users.get(i) decides between the subscribe call and `continue`
UnsubscribeOk ==
    /\ Alive
    /\ resub_pc = "unsubscribe"
    /\ LET h == subscription_ids[i]
       IN /\ live' = live \ {h}
          /\ calls' = Append(calls, UnsubscribeCall(h, TRUE))
    /\ IF i <= Len(subscribed_users)
       THEN /\ resub_pc' = "subscribe"
            /\ i' = i
       ELSE /\ resub_pc' = AfterSlot(i)
            /\ i' = i + 1
    /\ UNCHANGED <<addresses, main_pc, address_i, subscribed_users, subscription_ids,
                   failed_subscription_ids, new_subscription_ids, issued_for, init_failed,
                   pipeVars>>

\* a changed UnsubscribeErr: the id is not pushed to failed_subscription_ids
UnsubscribeErrDropsId ==
    /\ Alive
    /\ resub_pc = "unsubscribe"
    /\ calls' = Append(calls, UnsubscribeCall(subscription_ids[i], FALSE))
    /\ resub_pc' = AfterSlot(i)
    /\ i' = i + 1
    /\ UNCHANGED <<addresses, main_pc, address_i, subscribed_users, subscription_ids,
                   failed_subscription_ids, new_subscription_ids, live, issued_for,
                   init_failed,
                   pipeVars>>

\* info_client.unsubscribe(*subscription_id) returned Err(err)
UnsubscribeErr ==
    /\ Alive
    /\ resub_pc = "unsubscribe"
    /\ LET h == subscription_ids[i]
       IN /\ failed_subscription_ids' = Append(failed_subscription_ids, h)
          /\ calls' = Append(calls, UnsubscribeCall(h, FALSE))
    /\ resub_pc' = AfterSlot(i)
    /\ i' = i + 1
    /\ UNCHANGED <<addresses, main_pc, address_i, subscribed_users, subscription_ids,
                   new_subscription_ids, live, issued_for, init_failed,
                   pipeVars>>

\* a changed UserOfSlot: the resolved address list is indexed instead
UserOfSlotFromAddresses(n) == FromStr(addresses[n]).user

\* the user the subscribe call of slot n is made for: subscribed_users.get(i)
UserOfSlot(n) == subscribed_users[n]

\* info_client.subscribe(UserEvents { user: *user }) returned Ok(id)
SubscribeOk ==
    /\ Alive
    /\ resub_pc = "subscribe"
    /\ LET user == UserOfSlot(i)
           h == NextHandle
       IN /\ new_subscription_ids' = Append(new_subscription_ids, h)
          /\ live' = live \cup {h}
          /\ issued_for' = [issued_for EXCEPT ![h] = user]
          /\ calls' = Append(calls, SubscribeCall(user, TRUE, h))
    /\ resub_pc' = AfterSlot(i)
    /\ i' = i + 1
    /\ UNCHANGED <<addresses, main_pc, address_i, subscribed_users, subscription_ids,
                   failed_subscription_ids, init_failed,
                   pipeVars>>

\* a changed SubscribeErr: subscribe_res.unwrap() runs on the Err and the task panics
SubscribeErrUnwraps ==
    /\ Alive
    /\ resub_pc = "subscribe"
    /\ calls' = Append(calls, SubscribeCall(UserOfSlot(i), FALSE, 0))
    /\ resub_pc' = "panicked"
    /\ UNCHANGED <<addresses, main_pc, address_i, subscribed_users, subscription_ids, i,
                   failed_subscription_ids, new_subscription_ids, live, issued_for,
                   init_failed,
                   pipeVars>>

\* info_client.subscribe(...) returned Err: subscribe_res.is_err() is checked
\* before subscribe_res.unwrap(), the old id goes to failed_subscription_ids
SubscribeErr ==
    /\ Alive
    /\ resub_pc = "subscribe"
    /\ failed_subscription_ids' = Append(failed_subscription_ids, subscription_ids[i])
    /\ calls' = Append(calls, SubscribeCall(UserOfSlot(i), FALSE, 0))
    /\ resub_pc' = AfterSlot(i)
    /\ i' = i + 1
    /\ UNCHANGED <<addresses, main_pc, address_i, subscribed_users, subscription_ids,
                   new_subscription_ids, live, issued_for, init_failed,
                   pipeVars>>

\* a changed Committed: the new list is appended to the old one instead of
\* replacing it
CommittedKeepsOld(new_ids, failed_ids) == dedup(subscription_ids \o new_ids \o failed_ids)

\* a changed Committed: the append of the failed ids is missing
CommittedNewOnly(new_ids, failed_ids) == dedup(new_ids)

\* new_subscription_ids.append(&mut failed_subscription_ids); dedup()
Committed(new_ids, failed_ids) == dedup(new_ids \o failed_ids)

\* subscription_ids = new_subscription_ids, then the next sleep
Commit ==
    /\ Alive
    /\ resub_pc = "commit"
    /\ subscription_ids' = Committed(new_subscription_ids, failed_subscription_ids)
    /\ failed_subscription_ids' = <<>>
    /\ new_subscription_ids' = <<>>
    /\ resub_pc' = "sleep"
    /\ i' = 1
    /\ issued_for' = [h \in Handles |->
                        IF h \in live \cup Range(subscription_ids') THEN issued_for[h] ELSE 0]
    /\ UNCHANGED <<addresses, main_pc, address_i, subscribed_users, live,
                   init_failed, calls,
                   pipeVars>>

ResubscribeTask ==
    Resubscribing \/ UnsubscribeOk \/ UnsubscribeErr \/ SubscribeOk \/ SubscribeErr \/ Commit

\* ------------------------------------------------------------------ EventSource channel
\* the EventSource sends a fills report (Message::User) for a watched account
SourceUser ==
    /\ Alive
    /\ sent_messages < MaxMessages
    /\ \E n \in 0..(MaxFills - sent_fills) :
         \E fills \in [1..n -> UNION {TradeInfo(t) : t \in 1..MaxFills}] :
            /\ \A m \in 1..n : fills[m].tid = sent_fills + m
            /\ receiver' = Append(receiver, [kind |-> "User", fills |-> fills])
            /\ sent_fills' = sent_fills + n
    /\ sent_messages' = sent_messages + 1
    /\ UNCHANGED <<subVars, user_fills, trades, trades_lock, flush_pc, message, posts,
                   drained, last_tick, discarded>>

\* the EventSource sends any other kind of message
SourceOther ==
    /\ Alive
    /\ sent_messages < MaxMessages
    /\ receiver' = Append(receiver, [kind |-> "Other", fills |-> <<>>])
    /\ sent_messages' = sent_messages + 1
    /\ UNCHANGED <<subVars, user_fills, trades, trades_lock, flush_pc, message,
                   sent_fills, posts, drained, last_tick, discarded>>

Source == SourceUser \/ SourceOther

\* ------------------------------------------------------------------ ingestion loop (main)
\* receiver.recv() yields Some(Message::User(user)): next is trades_arc.lock()
RecvUser ==
    /\ main_pc = "recv"
    /\ receiver # <<>>
    /\ Head(receiver).kind = "User"
    /\ user_fills' = Head(receiver).fills
    /\ receiver' = Tail(receiver)
    /\ main_pc' = "lock"
    /\ UNCHANGED <<addresses, address_i, subscribed_users, subscription_ids, resub_pc,
                   i, failed_subscription_ids, new_subscription_ids, live, issued_for,
                   init_failed, calls>>
    /\ UNCHANGED <<trades, trades_lock, flush_pc, message, sent_fills, sent_messages,
                   posts, drained, last_tick, discarded>>

\* a changed RecvOther: an unexpected message kind ends the loop and with it main
RecvOtherFails ==
    /\ main_pc = "recv"
    /\ receiver # <<>>
    /\ Head(receiver).kind # "User"
    /\ receiver' = Tail(receiver)
    /\ discarded' = discarded + 1
    /\ main_pc' = "exited"
    /\ UNCHANGED <<addresses, address_i, subscribed_users, subscription_ids, resub_pc,
                   i, failed_subscription_ids, new_subscription_ids, live, issued_for,
                   init_failed, calls>>
    /\ UNCHANGED <<user_fills, trades, trades_lock, flush_pc, message,
                   sent_fills, sent_messages, posts, drained, last_tick>>

\* receiver.recv() yields anything else: _ => ()
RecvOther ==
    /\ main_pc = "recv"
    /\ receiver # <<>>
    /\ Head(receiver).kind # "User"
    /\ receiver' = Tail(receiver)
    /\ discarded' = discarded + 1
    /\ UNCHANGED <<subVars, user_fills, trades, trades_lock, flush_pc, message,
                   sent_fills, sent_messages, posts, drained, last_tick>>

\* a changed Appended: the buffer is overwritten with the new fills
AppendedReplaces(buffer, fills) == fills

\* a changed Appended: the new fills are put in front of the buffered ones
AppendedInFront(buffer, fills) == fills \o buffer

\* Vec::append
Appended(buffer, fills) == buffer \o fills

\* the lock is granted: trades.append(&mut user.data.fills), guard dropped
AppendFills ==
    /\ main_pc = "lock"
    /\ trades_lock = "free"
    /\ trades' = Appended(trades, user_fills)
    /\ user_fills' = <<>>
    /\ main_pc' = "recv"
    /\ UNCHANGED <<addresses, address_i, subscribed_users, subscription_ids, resub_pc,
                   i, failed_subscription_ids, new_subscription_ids, live, issued_for,
                   init_failed, calls>>
    /\ UNCHANGED <<receiver, trades_lock, flush_pc, message, sent_fills, sent_messages,
                   posts, drained, last_tick, discarded>>

IngestTask == RecvUser \/ RecvOther \/ AppendFills

\* ------------------------------------------------------------------ flush task
\* a changed SideName: the two arms are swapped
SideNameSwapped(side) ==
    CASE side = "A" -> "Short"
      [] side = "B" -> "Long"
      [] OTHER -> "Unknown"

\* match trade.side.as_str()
SideName(side) ==
    CASE side = "A" -> "Long"
      [] side = "B" -> "Short"
      [] OTHER -> "Unknown"

\* format!("{} {} {}", side, trade.coin, trade.sz)
Format(trade) == SideName(trade.side) \o " " \o trade.coin \o " " \o trade.sz

\* [String]::join(sep)
RECURSIVE Join(_, _)
Join(lines, sep) ==
    IF Len(lines) = 0 THEN ""
    ELSE IF Len(lines) = 1 THEN lines[1]
         ELSE lines[1] \o sep \o Join(Tail(lines), sep)

\* Vec::from_iter(trades.iter().map(...)).join("\n")
BuildMessage(buffer) == Join([n \in 1..Len(buffer) |-> Format(buffer[n])], "\n")

\* a changed SkipsPost: the emptiness check is missing
NeverSkipsPost(msg) == FALSE

\* message.len() == 0 => continue
SkipsPost(msg) == Len(msg) = 0

\* sleep(1 s) elapsed and the lock is granted: build the message, clear the
\* buffer, then either `continue` (guard dropped) or start the POST, with the
\* guard still in scope
FlushTick ==
    /\ Alive
    /\ flush_pc = "sleep"
    /\ trades_lock = "free"
    /\ trades' = <<>>
    /\ drained' = IF trades # <<>> THEN Append(drained, trades) ELSE drained
    /\ last_tick' = IF trades # <<>> THEN "fills" ELSE "empty"
    /\ LET msg == BuildMessage(trades)
       IN IF SkipsPost(msg)
          THEN UNCHANGED <<flush_pc, trades_lock, message, posts>>
          ELSE /\ flush_pc' = "send"
               /\ trades_lock' = "flush"
               /\ message' = msg
               /\ posts' = Append(posts, [content |-> msg, fills |-> trades,
                                          result |-> "pending", blocked |-> FALSE])
    /\ UNCHANGED <<subVars, receiver, user_fills, sent_fills, sent_messages, discarded>>

\* a changed Sent: a batch whose delivery failed is put back into the buffer
SentRequeues(result) ==
    /\ Alive
    /\ flush_pc = "send"
    /\ posts' = [posts EXCEPT ![Len(posts)].result = result,
                              ![Len(posts)].blocked = (main_pc = "lock")]
    /\ trades' = IF result = "ok" THEN trades ELSE posts[Len(posts)].fills \o trades
    /\ flush_pc' = "sleep"
    /\ trades_lock' = "free"
    /\ message' = ""
    /\ UNCHANGED <<subVars, receiver, user_fills, sent_fills, sent_messages,
                   drained, last_tick, discarded>>

\* what the three outcomes of send().await share: the iteration ends, the guard
\* is dropped, the task sleeps again
Sent(result) ==
    /\ Alive
    /\ flush_pc = "send"
    /\ posts' = [posts EXCEPT ![Len(posts)].result = result,
                              ![Len(posts)].blocked = (main_pc = "lock")]
    /\ flush_pc' = "sleep"
    /\ trades_lock' = "free"
    /\ message' = ""
    /\ UNCHANGED <<subVars, receiver, user_fills, trades, sent_fills, sent_messages,
                   drained, last_tick, discarded>>

\* Ok(res) with a success status
SendOk == Sent("ok")

\* Ok(res) and res.error_for_status().is_err(): warn
SendBadStatus == Sent("status")

\* Err(err): warn, continue
SendErr == Sent("err")

FlushTask == FlushTick \/ SendOk \/ SendBadStatus \/ SendErr

\* ------------------------------------------------------------------ specifications
SubNext == Startup \/ ResubscribeTask

PipeNext == Source \/ IngestTask \/ FlushTask

Next == SubNext \/ PipeNext

\* the whole program
Spec == Init /\ [][Next]_vars

\* startup and the resubscribe task; nothing arrives on the channel
SpecSub == Init /\ [][SubNext]_vars

\* an unsubscribe of a handle the EventSource still holds succeeds
UnsubscribeLiveOk == UnsubscribeOk /\ subscription_ids[i] \in live

\* SpecSub with the scheduling the runtime gives: main and the spawned task keep
\* taking their steps.  The EventSource is assumed as kind as it can be without
\* fixing outcomes: a subscribe that is tried again and again succeeds at some
\* point, and so does an unsubscribe of a handle that is still live.
FairSpecSub ==
    /\ SpecSub
    /\ WF_vars(Startup)
    /\ WF_vars(ResubscribeTask)
    /\ SF_vars(SubscribeOk)
    /\ SF_vars(UnsubscribeLiveOk)

\* The state in which main enters its receive loop after a startup pass over one
\* address whose subscribe succeeded.
Started ==
    /\ addresses = <<Hex(1)>>
    /\ main_pc = "recv"
    /\ address_i = 2
    /\ subscribed_users = <<1>>
    /\ subscription_ids = <<1>>
    /\ resub_pc = "sleep"
    /\ i = 1
    /\ failed_subscription_ids = <<>>
    /\ new_subscription_ids = <<>>
    /\ live = {1}
    /\ issued_for = [h \in Handles |-> IF h = 1 THEN 1 ELSE 0]
    /\ init_failed = {}
    /\ calls = <<[op |-> "subscribe", user |-> 1, id |-> 1, ok |-> TRUE, held |-> {}]>>
    /\ receiver = <<>>
    /\ user_fills = <<>>
    /\ trades = <<>>
    /\ trades_lock = "free"
    /\ flush_pc = "sleep"
    /\ message = ""
    /\ sent_fills = 0
    /\ sent_messages = 0
    /\ posts = <<>>
    /\ drained = <<>>
    /\ last_tick = "none"
    /\ discarded = 0

\* the channel, the ingestion loop and the flush task, from Started on
SpecPipe == Started /\ [][PipeNext]_vars

\* ------------------------------------------------------------------ reading the call history
CallIndexes == 1..Len(calls)

IsSubscribe(n) == calls[n].op = "subscribe"

IsUnsubscribe(n) == calls[n].op = "unsubscribe"

\* the resubscribe task is inside a cycle or has just committed one
InCycle == resub_pc \in {"unsubscribe", "subscribe", "commit"}

CycleDone == resub_pc = "sleep" /\ \E n \in CallIndexes : IsUnsubscribe(n)

\* a subscribe for user was issued after call n of this cycle
SubscribedAfter(n, user) ==
    \E m \in CallIndexes : m > n /\ IsSubscribe(m) /\ calls[m].user = user

\* ------------------------------------------------------------------ claims
\* C1: no watched account ever has two live handles, and no subscribe is issued
\* for an account while a handle issued for it has not been successfully
\* unsubscribed.
C1_OneLiveHandlePerAccount ==
    /\ \A a \in Accounts : Cardinality(LiveOf(a)) <= 1
    /\ \A n \in CallIndexes : IsSubscribe(n) => calls[n].held = {}

\* C2: when the loop of a cycle has ended and exactly one unsubscribe call of
\* the cycle failed, every slot was visited and every handle of another
\* account was unsubscribed and followed by a subscribe for that same account.
C2_OneUnsubscribeFailureIsolated ==
    LET failed == {n \in CallIndexes : IsUnsubscribe(n) /\ ~calls[n].ok}
    IN (resub_pc = "commit" /\ Cardinality(failed) = 1) =>
          /\ Cardinality({n \in CallIndexes : IsUnsubscribe(n)}) = Len(subscription_ids)
          /\ \A n \in CallIndexes :
                (IsUnsubscribe(n) /\ \A f \in failed : calls[f].user # calls[n].user)
                   => calls[n].ok /\ SubscribedAfter(n, calls[n].user)

\* C3: an account's live handle is never torn down in a cycle without a
\* subscribe for that account in the same cycle, and an account that had a
\* live handle ends the cycle with one when every call on its handles and every
\* subscribe for it in that cycle succeeded.
C3_OtherAccountKeepsSubscription ==
    /\ (resub_pc = "commit" \/ CycleDone) =>
          \A n \in CallIndexes :
             (IsUnsubscribe(n) /\ calls[n].ok /\ calls[n].held # {})
                => SubscribedAfter(n, calls[n].user)
    /\ CycleDone =>
          \A b \in Accounts :
             ( /\ \E n \in CallIndexes : IsUnsubscribe(n) /\ calls[n].user = b
                                          /\ calls[n].held # {}
               /\ \A n \in CallIndexes : calls[n].user = b => calls[n].ok )
                => LiveOf(b) # {}

\* C4: after a cycle in which the subscribe for an account failed, a later
\* cycle issues a subscribe for that account again.
C4_RecoversAfterFailedSubscribe ==
    \A a \in Accounts :
       (CycleDone /\ \E n \in CallIndexes : IsSubscribe(n) /\ calls[n].user = a /\ ~calls[n].ok)
          ~> (resub_pc = "subscribe" /\ UserOfSlot(i) = a)

\* the startup pass has visited every address and main has not gone on yet
StartupPassDone == main_pc = "subscribe" /\ address_i > Len(addresses)

SlotsOf(user) == {j \in 1..Len(subscribed_users) : subscribed_users[j] = user}

\* C5: right after the startup pass every address got its subscribe call; an
\* account whose call succeeded has exactly one slot, holding the returned
\* handle; an account whose call failed has none.  Only a malformed address
\* ends the pass early.
C5_SlotsAfterStartup ==
    /\ StartupPassDone =>
          /\ Len(calls) = Len(addresses)
          /\ Len(subscription_ids) = Len(subscribed_users)
          /\ \A n \in 1..Len(addresses) :
                LET user == FromStr(addresses[n]).user
                IN /\ calls[n].user = user
                   /\ IF calls[n].ok
                      THEN /\ Cardinality(SlotsOf(user)) = 1
                           /\ \A j \in SlotsOf(user) : subscription_ids[j] = calls[n].id
                      ELSE SlotsOf(user) = {}
    /\ (main_pc = "exited" /\ address_i <= Len(addresses)) =>
          ~FromStr(addresses[address_i]).ok

\* a startup pass in which a failed subscribe was followed by a successful one
C5_Witness ==
    /\ StartupPassDone
    /\ Len(calls) = 2
    /\ ~calls[1].ok
    /\ calls[2].ok
    /\ subscribed_users = <<calls[2].user>>

\* C6: an account whose startup subscribe failed is never subscribed by the
\* resubscribe task: no call of a cycle is a subscribe for it, none is about
\* to be issued, and it holds no live handle.
C6_StartupFailureNeverSubscribed ==
    /\ (InCycle \/ CycleDone) =>
          \A n \in CallIndexes : IsSubscribe(n) => calls[n].user \notin init_failed
    /\ resub_pc = "subscribe" => UserOfSlot(i) \notin init_failed
    /\ \A a \in init_failed : LiveOf(a) = {}

\* a cycle has resubscribed another account after a startup failure
C6_Witness ==
    /\ init_failed # {}
    /\ CycleDone
    /\ \E n \in CallIndexes : IsSubscribe(n) /\ calls[n].ok

\* C7: whatever calls fail, the resubscribe task neither panics nor stops: once
\* spawned it always has a next step (the next call, the commit, the next
\* cycle), and nothing of the ingestion and flush tasks is touched.
C7_FailuresNotFatal ==
    /\ resub_pc \in {"none", "sleep", "unsubscribe", "subscribe", "commit"}
    /\ main_pc = "recv" => (resub_pc # "none" /\ ENABLED ResubscribeTask)
    /\ resub_pc = "commit" => ENABLED Commit
    /\ (InCycle \/ CycleDone) =>
          /\ main_pc = "recv"
          /\ flush_pc = "sleep"
          /\ trades_lock = "free"
          /\ <<receiver, user_fills, trades, posts, drained>> = <<<<>>, <<>>, <<>>, <<>>, <<>>>>

\* a committed cycle in which an unsubscribe failed and a subscribe failed
C7_Witness ==
    /\ CycleDone
    /\ \E n \in CallIndexes : IsUnsubscribe(n) /\ ~calls[n].ok
    /\ \E n \in CallIndexes : IsSubscribe(n) /\ ~calls[n].ok

\* ------------------------------------------------------------------ claims about the flush
\* the line the specification prescribes for one fill
ExpectedLine(fill) ==
    (IF fill.side = "A" THEN "Long" ELSE IF fill.side = "B" THEN "Short" ELSE "Unknown")
        \o " " \o fill.coin \o " " \o fill.sz

\* the lines of a non-empty buffer, in order, with a newline between them
RECURSIVE ExpectedContent(_)
ExpectedContent(buffer) ==
    IF Len(buffer) = 1 THEN ExpectedLine(buffer[1])
    ELSE ExpectedContent(SubSeq(buffer, 1, Len(buffer) - 1))
            \o "\n" \o ExpectedLine(buffer[Len(buffer)])

\* C8: a flush tick that finds fills in the buffer makes exactly one POST whose
\* content is the formatted line of every buffered fill, in buffer order,
\* joined by newlines, and leaves the buffer empty.
C8_BatchedFlushContent ==
    [][ drained' # drained =>
          /\ Len(posts') = Len(posts) + 1
          /\ SubSeq(posts', 1, Len(posts)) = posts
          /\ posts'[Len(posts')].content = ExpectedContent(trades)
          /\ message' = ExpectedContent(trades)
          /\ flush_pc' = "send"
          /\ trades' = <<>> ]_vars

\* the example of the specification: two fills flushed as one message
C8_Witness ==
    /\ Len(posts) = 1
    /\ posts[1].content = "Long BTC 1\nShort ETH 2"
    /\ Len(posts[1].fills) = 2
    /\ trades = <<>>

\* C9: no POST is made for an empty buffer: there are never more POSTs than
\* flush ticks that found fills, every POST carries fills, and a POST is in
\* flight only after a tick that found fills.
C9_NoPostForEmptyBuffer ==
    /\ Len(posts) <= Len(drained)
    /\ \A n \in 1..Len(posts) : posts[n].fills # <<>> /\ posts[n].content # ""
    /\ flush_pc = "send" => last_tick = "fills"

\* the latest tick found the buffer empty, after an earlier one had flushed fills
C9_Witness ==
    /\ last_tick = "empty"
    /\ flush_pc = "sleep"
    /\ Len(drained) = 1
    /\ Len(posts) = 1

Copies(fills, tid) == Cardinality({n \in 1..Len(fills) : fills[n].tid = tid})

RECURSIVE CopiesInChannel(_, _)
CopiesInChannel(msgs, tid) ==
    IF msgs = <<>> THEN 0
    ELSE Copies(Head(msgs).fills, tid) + CopiesInChannel(Tail(msgs), tid)

RECURSIVE CopiesInPosts(_, _)
CopiesInPosts(ps, tid) ==
    IF ps = <<>> THEN 0
    ELSE Copies(Head(ps).fills, tid) + CopiesInPosts(Tail(ps), tid)

\* C10: every ingested fill goes into exactly one POST, the one made at the
\* next flush tick: each POST carries the whole buffer its tick found, a fill
\* that has been appended is in the buffer or in exactly one POST, and no fill
\* is lost or doubled on the way.
C10_EveryFillInOnePost ==
    /\ Len(posts) = Len(drained)
    /\ \A n \in 1..Len(posts) : posts[n].fills = drained[n]
    /\ \A t \in 1..sent_fills :
          /\ CopiesInChannel(receiver, t) + Copies(user_fills, t)
                + Copies(trades, t) + CopiesInPosts(posts, t) = 1
          /\ CopiesInPosts(posts, t) = 1 =>
                \E n \in 1..Len(posts) : Copies(posts[n].fills, t) = 1

\* fills arrived while the first POST was in flight and went into the second
C10_Witness ==
    /\ Len(posts) = 2
    /\ posts[1].blocked
    /\ sent_fills = MaxFills
    /\ \A t \in 1..sent_fills : CopiesInPosts(posts, t) = 1
\* ------------------------------------------------------------------ C11
\* the POST of posts[n] ended in a transport error or a non-2xx status
Failed(n) == posts[n].result \in {"err", "status"}

TidsOf(fills) == {fills[m].tid : m \in 1..Len(fills)}

\* C11: a failed delivery is non-fatal and lossy.  Once the POST of a batch has
\* failed, the process is still running and the flush task is back in its loop
\* (asleep with the next tick possible, or already sending a later batch); the
\* fills of the failed batch are in no buffer, in no message still in the
\* channel and in no later POST; and every later POST carries exactly the fills
\* that its own tick found in the buffer.
C11_FailedBatchDroppedTaskContinues ==
    \A n \in 1..Len(posts) :
        Failed(n) =>
            /\ Alive
            /\ flush_pc \in {"sleep", "send"}
            /\ flush_pc = "sleep" => trades_lock = "free" /\ ENABLED FlushTick
            /\ \A t \in TidsOf(posts[n].fills) :
                   /\ Copies(trades, t) = 0
                   /\ Copies(user_fills, t) = 0
                   /\ CopiesInChannel(receiver, t) = 0
                   /\ \A m \in 1..Len(posts) : m # n => Copies(posts[m].fills, t) = 0
            /\ \A m \in (n + 1)..Len(posts) :
                   /\ posts[m].fills = drained[m]
                   /\ posts[m].content = ExpectedContent(drained[m])

\* the first batch failed, a fill ingested afterwards went out in a second POST
C11_Witness ==
    /\ Len(posts) = 2
    /\ Failed(1)
    /\ posts[1].fills # <<>>
    /\ posts[2].result = "ok"
    /\ TidsOf(posts[2].fills) = {sent_fills}
    /\ trades = <<>>
\* ------------------------------------------------------------------ C12
RECURSIVE Flatten(_)
Flatten(seqs) == IF seqs = <<>> THEN <<>> ELSE Head(seqs) \o Flatten(Tail(seqs))

\* the fills in the order the webhook received them: POST by POST, and within a
\* POST in the order of its lines
Delivered == Flatten([n \in 1..Len(posts) |-> posts[n].fills])

\* the fills not yet passed to a POST, in the order they will be reached
Undelivered ==
    trades \o user_fills \o Flatten([n \in 1..Len(receiver) |-> receiver[n].fills])

\* tids number the fills in the order the EventSource put them on the channel,
\* report by report and within a report in listing order
InChannelOrder(fills) ==
    \A m, n \in 1..Len(fills) : m < n => fills[m].tid < fills[n].tid

\* C12: order preservation.  Under every interleaving of the ingestion and flush
\* tasks, the delivered fills followed by the fills still on their way are in
\* the order in which they were put on the channel (so the fills of one report
\* keep their listing order and no fill of an earlier report comes after a fill
\* of a later one), and the lines of each POST are in the order of its fills.
C12_OrderPreserved ==
    /\ InChannelOrder(Delivered \o Undelivered)
    /\ \A n \in 1..Len(posts) : posts[n].content = ExpectedContent(posts[n].fills)

\* every fill was delivered, in two POSTs: at least two reports, in two batches
C12_Witness ==
    /\ Len(posts) = 2
    /\ posts[1].result # "pending"
    /\ Len(posts[1].fills) + Len(posts[2].fills) = MaxFills
    /\ Undelivered = <<>>
\* ------------------------------------------------------------------ C13
\* C13: the dispatcher can run under a failure-fatal (immediate) policy: once a
\* webhook delivery has failed, the whole process has terminated.  The program
\* reads one setting, DISCORD_WEBHOOK_URL, and none that selects a policy, so
\* the statement is about the only policy it runs under.
C13_DeliveryFailureTerminatesProcess ==
    \A n \in 1..Len(posts) : Failed(n) => ~Alive
\* ------------------------------------------------------------------ C14
\* C14: the flush task has released the buffer lock before the webhook POST
\* starts, so in no reachable state is a POST in flight while the ingestion
\* task waits for a buffer lock that is still held.
C14_NoWaitForLockDuringPost ==
    ~(flush_pc = "send" /\ main_pc = "lock" /\ trades_lock # "free")
\* ------------------------------------------------------------------ C15
\* the unsubscribe calls of the current cycle, in call order
UnsubscribeIndexes == {n \in CallIndexes : IsUnsubscribe(n)}

FailedUnsubscribe(n) == IsUnsubscribe(n) /\ ~calls[n].ok

\* C15: when the unsubscribe of a tracked handle fails, the cycle issues no
\* subscribe for that slot (its next call, if any, is the unsubscribe of the
\* next slot), the old handle is set aside during the cycle and is in the
\* committed list after it; and a cycle attempts the teardown of every handle
\* of the committed list, so the kept handle is tried again next cycle.
C15_FailedUnsubscribeKeepsHandle ==
    /\ \A n \in CallIndexes :
          FailedUnsubscribe(n) =>
              /\ n < Len(calls) => IsUnsubscribe(n + 1)
              /\ n = Len(calls) => resub_pc # "subscribe"
              /\ InCycle => calls[n].id \in Range(failed_subscription_ids)
              /\ resub_pc = "sleep" => calls[n].id \in Range(subscription_ids)
    /\ resub_pc = "commit" =>
          {calls[n].id : n \in UnsubscribeIndexes} = Range(subscription_ids)

\* a cycle is over in which one unsubscribe failed and another slot was renewed
C15_Witness ==
    /\ CycleDone
    /\ \E n \in CallIndexes : FailedUnsubscribe(n)
    /\ \E n \in CallIndexes : IsSubscribe(n) /\ calls[n].ok
\* ------------------------------------------------------------------ C16
\* call n is a successful unsubscribe whose slot then got a successful subscribe
Replaced(n) ==
    /\ IsUnsubscribe(n) /\ calls[n].ok
    /\ n < Len(calls) /\ IsSubscribe(n + 1) /\ calls[n + 1].ok

\* C16: when the unsubscribe of a slot's old handle and the subscribe that
\* follows both succeed, the handle returned is a different one, and after the
\* cycle the committed list contains the returned handle and not the old one:
\* it never contains a handle that was replaced in the cycle.
C16_ReplacedHandleNotCommitted ==
    \A n \in CallIndexes :
        Replaced(n) =>
            /\ calls[n + 1].id # calls[n].id
            /\ InCycle => /\ calls[n + 1].id \in Range(new_subscription_ids)
                          /\ calls[n].id \notin Range(new_subscription_ids)
                          /\ calls[n].id \notin Range(failed_subscription_ids)
            /\ resub_pc = "sleep" => /\ calls[n + 1].id \in Range(subscription_ids)
                                     /\ calls[n].id \notin Range(subscription_ids)

\* a cycle is over in which every slot was replaced
C16_Witness ==
    /\ CycleDone
    /\ Len(subscription_ids) = MaxAccounts
    /\ \A n \in UnsubscribeIndexes : Replaced(n)
\* ------------------------------------------------------------------ C17
\* The committed list is computed from whatever ids subscribe returned.  To see
\* what append + dedup do with ids that repeat, the refresh loop is run against
\* an EventSource that may return any handle value, from the state after a
\* startup in which up to MaxSlots accounts were subscribed.
MaxSlots == 3

\* info_client.subscribe(...) returned Ok(id), for any id
SubscribeOkAnyId ==
    /\ Alive
    /\ resub_pc = "subscribe"
    /\ \E h \in Handles :
         /\ new_subscription_ids' = Append(new_subscription_ids, h)
         /\ live' = live \cup {h}
         /\ issued_for' = [issued_for EXCEPT ![h] = UserOfSlot(i)]
         /\ calls' = Append(calls, SubscribeCall(UserOfSlot(i), TRUE, h))
    /\ resub_pc' = AfterSlot(i)
    /\ i' = i + 1
    /\ UNCHANGED <<addresses, main_pc, address_i, subscribed_users, subscription_ids,
                   failed_subscription_ids, init_failed,
                   pipeVars>>

RefreshAnyId ==
    Resubscribing \/ UnsubscribeOk \/ UnsubscribeErr \/ SubscribeOkAnyId \/ SubscribeErr
    \/ Commit

\* main is in its receive loop after a startup pass over k addresses whose
\* subscribes all succeeded, with the ids 1..k
StartedSlots ==
    \E k \in 1..MaxSlots :
        /\ addresses = [n \in 1..k |-> Hex(n)]
        /\ main_pc = "recv"
        /\ address_i = k + 1
        /\ subscribed_users = [n \in 1..k |-> n]
        /\ subscription_ids = [n \in 1..k |-> n]
        /\ resub_pc = "sleep"
        /\ i = 1
        /\ failed_subscription_ids = <<>>
        /\ new_subscription_ids = <<>>
        /\ live = 1..k
        /\ issued_for = [h \in Handles |-> IF h <= k THEN h ELSE 0]
        /\ init_failed = {}
        /\ calls = <<>>
        /\ receiver = <<>>
        /\ user_fills = <<>>
        /\ trades = <<>>
        /\ trades_lock = "free"
        /\ flush_pc = "sleep"
        /\ message = ""
        /\ sent_fills = 0
        /\ sent_messages = 0
        /\ posts = <<>>
        /\ drained = <<>>
        /\ last_tick = "none"
        /\ discarded = 0

SpecAnyId == StartedSlots /\ [][RefreshAnyId]_vars

\* C17: after every refresh cycle the committed list holds each handle at most
\* once, whatever handle values the subscribes of the cycle returned.
C17_CommittedHandlesDistinct ==
    resub_pc = "sleep" => IsInjective(subscription_ids)
\* ------------------------------------------------------------------ C18
\* the step in which the ingestion loop takes a message of another kind than
\* a fills report from the channel
TakesOtherMessage ==
    /\ main_pc = "recv"
    /\ receiver # <<>>
    /\ Head(receiver).kind # "User"
    /\ receiver' = Tail(receiver)

\* C18: receiving a message that is not a fills report leaves the buffer (and
\* the fills in hand) unchanged, issues and ends no webhook call, raises no
\* error, and leaves the ingestion loop at its next recv.
C18_OtherMessageIgnored ==
    [][TakesOtherMessage =>
          /\ trades' = trades
          /\ user_fills' = user_fills
          /\ posts' = posts
          /\ <<flush_pc, trades_lock, message>>' = <<flush_pc, trades_lock, message>>
          /\ main_pc' = "recv"
          /\ subVars' = subVars]_vars

\* a message of another kind has been taken and ignored; the loop is at recv
\* and the buffer holds every fill that was sent
C18_Witness ==
    /\ discarded >= 1
    /\ main_pc = "recv"
    /\ trades # <<>>
    /\ Len(trades) = sent_fills
\* ------------------------------------------------------------------ C19
\* the resubscribe task sleeps: its next step starts a refresh cycle
AtCycleStart == Alive /\ resub_pc = "sleep" /\ main_pc = "recv"

\* C19: at the start of every refresh cycle the tracked handle list and the
\* tracked account list have the same length and are aligned: the handle at
\* index j was issued by a subscribe for the account at index j.
C19_HandlesPairedWithAccounts ==
    AtCycleStart =>
        /\ Len(subscription_ids) = Len(subscribed_users)
        /\ \A j \in 1..Len(subscription_ids) :
               issued_for[subscription_ids[j]] = subscribed_users[j]
\* ------------------------------------------------------------------ C20
\* the startup pass is over, or a refresh cycle has just been committed
BetweenCycles == StartupPassDone \/ (main_pc = "recv" /\ resub_pc = "sleep")

\* C20: no orphaned live subscription.  At the end of startup and of every
\* refresh cycle, every handle that is live at the EventSource (returned by a
\* successful subscribe and not successfully unsubscribed since, a failed
\* unsubscribe leaving it live) is in the tracked handle list.
C20_LiveHandlesTracked ==
    BetweenCycles => live \subseteq Range(subscription_ids)

\* a cycle is over in which an unsubscribe failed, leaving its handle live, and
\* another slot got a new live handle
C20_Witness ==
    /\ CycleDone
    /\ \E n \in CallIndexes : FailedUnsubscribe(n) /\ calls[n].id \in live
    /\ \E n \in CallIndexes : IsSubscribe(n) /\ calls[n].ok /\ calls[n].id \in live
====
